---- MODULE Spec2Model ----
(***************************************************************************)
(* Model of src/main.py: the aggregation pass `calculate` over a stream of *)
(* <person> records, the duration renderer `output_timedelta` and the      *)
(* console renderer `console_output`.                                      *)
(*                                                                         *)
(* Python values are encoded as follows.                                   *)
(*   Optional[T]      <<>> is None, <<x>> is the value x                   *)
(*   str (timestamp)  the numeric fields of the text in text order,        *)
(*                    <<DD, MM, YYYY, hh, mm, ss>>                         *)
(*   str (tag)        the sequence of its characters                       *)
(*   datetime         [year, month, day, hour, minute, second]             *)
(*   str (day key)    <<YYYY, MM, DD>>, the fields of '%Y-%m-%d'           *)
(*   dict             a function whose DOMAIN is the set of keys           *)
(***************************************************************************)
EXTENDS Integers, Sequences, FiniteSets, TLC

VARIABLES
    start_filter,   \* calculate's argument: Optional[datetime]
    end_filter,     \* calculate's argument: Optional[datetime]
    users_filter,   \* calculate's argument: Optional[List[str]]
    peoples,        \* calculate's local: Dict[str, Dict[str, int]]
    elem,           \* the element the last loop iteration handled
    name,           \* local of the last loop iteration: Optional[str]
    start,          \* local of the last loop iteration: Optional[datetime]
    end,            \* local of the last loop iteration: Optional[datetime]
    branch,         \* the exit the last loop iteration took
    count,          \* number of records next(context) has yielded
    log,            \* the messages given to logger.warning, in order
    emitted,        \* the messages the last loop iteration gave to it
    pc,             \* "loop", "returned", "raised" or "written"
    exc,            \* the exception that left calculate, "" when none
    result,         \* Optional: the dict calculate returned
    stdout,         \* Optional: what run() wrote to sys.stdout
    plain,          \* history: plain sum of elapsed seconds per name and day
    ref             \* the same stream read by calculate with users_filter=None

vars == <<start_filter, end_filter, users_filter, peoples, elem, name, start,
          end, branch, count, log, emitted, pc, exc, result, stdout, plain, ref>>

-----------------------------------------------------------------------------
(* Bounds of the model *)

MaxRecords == 2

MaxChildren == 3

MaxDuration == 3700

-----------------------------------------------------------------------------
(* Python helpers *)

None == <<>>

Some(x) == <<x>>

EmptyDict == <<>>

\* dict.get(key, default)
Get(d, k, default) == IF k \in DOMAIN d THEN d[k] ELSE default

\* d[k] = v
Put(d, k, v) == [x \in (DOMAIN d) \cup {k} |-> IF x = k THEN v ELSE d[x]]

\* int(a / b) for b > 0: true division, then truncation toward zero
IntTrueDiv(a, b) == IF a >= 0 THEN a \div b ELSE -((-a) \div b)

UpperCase == <<"A","B","C","D","E","F","G","H","I","J","K","L","M",
               "N","O","P","Q","R","S","T","U","V","W","X","Y","Z">>

LowerCase == <<"a","b","c","d","e","f","g","h","i","j","k","l","m",
               "n","o","p","q","r","s","t","u","v","w","x","y","z">>

\* str.lower() on one character
LowerChar(c) ==
    IF \E i \in DOMAIN UpperCase : UpperCase[i] = c
    THEN LowerCase[CHOOSE i \in DOMAIN UpperCase : UpperCase[i] = c]
    ELSE c

\* str.lower()
Lower(s) == [i \in DOMAIN s |-> LowerChar(s[i])]

-----------------------------------------------------------------------------
(* datetime *)

IsLeap(y) == (y % 4 = 0) /\ ((y % 100 # 0) \/ (y % 400 = 0))

DaysInMonth(y, m) ==
    IF m = 2 THEN (IF IsLeap(y) THEN 29 ELSE 28)
    ELSE IF m \in {4, 6, 9, 11} THEN 30 ELSE 31

DaysBeforeYear(y) ==
    (y - 1) * 365 + ((y - 1) \div 4) - ((y - 1) \div 100) + ((y - 1) \div 400)

RECURSIVE DaysBeforeMonth(_, _)
DaysBeforeMonth(y, m) ==
    IF m = 1 THEN 0 ELSE DaysBeforeMonth(y, m - 1) + DaysInMonth(y, m - 1)

\* datetime.toordinal()
ToOrdinal(dt) == DaysBeforeYear(dt.year) + DaysBeforeMonth(dt.year, dt.month) + dt.day

SecondOfDay(dt) == dt.hour * 3600 + dt.minute * 60 + dt.second

\* a < b on datetimes
DtLess(a, b) ==
    \/ ToOrdinal(a) < ToOrdinal(b)
    \/ ToOrdinal(a) = ToOrdinal(b) /\ SecondOfDay(a) < SecondOfDay(b)

\* int((e - s).total_seconds())
TotalSeconds(e, s) ==
    (ToOrdinal(e) - ToOrdinal(s)) * 86400 + SecondOfDay(e) - SecondOfDay(s)

\* dt.date().strftime('%Y-%m-%d')
DateStr(dt) == <<dt.year, dt.month, dt.day>>

\* datetime.strptime accepts the text
Matches(t) ==
    /\ Len(t) = 6
    /\ t[3] \in 1..9999
    /\ t[2] \in 1..12
    /\ t[1] \in 1..DaysInMonth(t[3], t[2])
    /\ t[4] \in 0..23
    /\ t[5] \in 0..59
    /\ t[6] \in 0..59

\* parse_datetime: [exc, value]; None raises TypeError, a text that does not
\* match PARSE_FORMAT raises ValueError
parse_datetime(text) ==
    IF text = None THEN [exc |-> "TypeError", value |-> None]
    ELSE IF ~Matches(text[1]) THEN [exc |-> "ValueError", value |-> None]
    ELSE [exc |-> "",
          value |-> Some([year |-> text[1][3], month |-> text[1][2],
                          day |-> text[1][1], hour |-> text[1][4],
                          minute |-> text[1][5], second |-> text[1][6]])]

\* run(): datetime.strptime(args.start, FILTER_FORMAT), midnight of the date
ParseFilter(t) ==
    [year |-> t[3], month |-> t[2], day |-> t[1],
     hour |-> 0, minute |-> 0, second |-> 0]

-----------------------------------------------------------------------------
(* Diagnostics given to logger.warning *)

MsgNoName == "Skipped! field full_name is not specified"

MsgValueError == "Skipped! time data does not match format"

MsgMissing == "Error. Try again!"

MsgQuota == "Exceeded the number of attempts"

SkipMessages == {MsgNoName, MsgValueError, MsgMissing}

-----------------------------------------------------------------------------
(* calculate, one iteration of its loop *)

TagStart == <<"s", "t", "a", "r", "t">>

TagEnd == <<"e", "n", "d">>

\* The for loop over elem.getchildren(): [exc, start, end].  A comment node's
\* tag is no str, so .lower() raises AttributeError; parse_datetime raises
\* TypeError on a child without text; neither is caught.  ValueError is
\* caught and becomes error_field.
\* A scan that keeps the first start and the first end it parsed
RECURSIVE ScanChildrenFirstWins(_, _, _, _)
ScanChildrenFirstWins(children, index, st, en) ==
    IF index > Len(children) THEN [exc |-> "", start |-> st, end |-> en]
    ELSE LET sub_element == children[index] IN
      IF sub_element.kind # "element"
      THEN [exc |-> "AttributeError", start |-> st, end |-> en]
      ELSE IF Lower(sub_element.tag) = TagStart
      THEN LET r == parse_datetime(sub_element.text) IN
           IF r.exc # "" THEN [exc |-> r.exc, start |-> st, end |-> en]
           ELSE ScanChildrenFirstWins(children, index + 1,
                                      IF st = None THEN r.value ELSE st, en)
      ELSE IF Lower(sub_element.tag) = TagEnd
      THEN LET r == parse_datetime(sub_element.text) IN
           IF r.exc # "" THEN [exc |-> r.exc, start |-> st, end |-> en]
           ELSE ScanChildrenFirstWins(children, index + 1, st,
                                      IF en = None THEN r.value ELSE en)
      ELSE ScanChildrenFirstWins(children, index + 1, st, en)

RECURSIVE ScanChildren(_, _, _, _)
ScanChildren(children, index, st, en) ==
    IF index > Len(children) THEN [exc |-> "", start |-> st, end |-> en]
    ELSE LET sub_element == children[index] IN
      IF sub_element.kind # "element"
      THEN [exc |-> "AttributeError", start |-> st, end |-> en]
      ELSE IF Lower(sub_element.tag) = TagStart
      THEN LET r == parse_datetime(sub_element.text) IN
           IF r.exc # "" THEN [exc |-> r.exc, start |-> st, end |-> en]
           ELSE ScanChildren(children, index + 1, r.value, en)
      ELSE IF Lower(sub_element.tag) = TagEnd
      THEN LET r == parse_datetime(sub_element.text) IN
           IF r.exc # "" THEN [exc |-> r.exc, start |-> st, end |-> en]
           ELSE ScanChildren(children, index + 1, st, r.value)
      ELSE ScanChildren(children, index + 1, st, en)

\* users_filter and name not in users_filter
UserFiltered(nm, uf) ==
    /\ uf # None
    /\ Len(uf[1]) > 0
    /\ \A i \in DOMAIN uf[1] : uf[1][i] # nm

\* A date filter with exclusive bounds (<= and >=)
DateFilteredExclusive(st, en, sf, ef) ==
    \/ sf # None /\ ~DtLess(sf[1], st)
    \/ ef # None /\ ~DtLess(en, ef[1])

\* (start_filter is not None and start < start_filter) or
\* (end_filter is not None and end > end_filter)
DateFiltered(st, en, sf, ef) ==
    \/ sf # None /\ DtLess(st, sf[1])
    \/ ef # None /\ DtLess(ef[1], en)

\* Lines 90-103: the update of peoples for an accepted record
Accumulate(p, nm, st, en) ==
    LET date_str == DateStr(st)
        p1 == IF DOMAIN Get(p, nm, EmptyDict) = {}
              THEN Put(p, nm, Put(EmptyDict, date_str, 0))
              ELSE p
        datetime_diff == TotalSeconds(en, st)
        total_time == Get(p1[nm], date_str, 0) + datetime_diff
    IN [peoples  |-> Put(p1, nm, Put(p1[nm], date_str,
                                     Get(p1[nm], date_str, 0) + total_time)),
        warnings |-> IF total_time > 86400 THEN <<MsgQuota>> ELSE <<>>]

\* The person's entry created before the date filter is applied
AfterScanEagerKey(p, nm, st, en, sf, ef) ==
    IF st = None \/ en = None
    THEN [peoples |-> p, branch |-> "missing", warnings |-> <<MsgMissing>>]
    ELSE IF DateFiltered(st[1], en[1], sf, ef)
    THEN [peoples |-> IF DOMAIN Get(p, nm, EmptyDict) = {}
                      THEN Put(p, nm, Put(EmptyDict, DateStr(st[1]), 0))
                      ELSE p,
          branch |-> "date_filtered", warnings |-> <<>>]
    ELSE LET a == Accumulate(p, nm, st[1], en[1]) IN
         [peoples |-> a.peoples, branch |-> "accepted", warnings |-> a.warnings]

\* Lines 81-103: what follows the scan of the children
AfterScan(p, nm, st, en, sf, ef) ==
    IF st = None \/ en = None
    THEN [peoples |-> p, branch |-> "missing", warnings |-> <<MsgMissing>>]
    ELSE IF DateFiltered(st[1], en[1], sf, ef)
    THEN [peoples |-> p, branch |-> "date_filtered", warnings |-> <<>>]
    ELSE LET a == Accumulate(p, nm, st[1], en[1]) IN
         [peoples |-> a.peoples, branch |-> "accepted", warnings |-> a.warnings]

\* The children scanned before the user filter is applied
calculate_body_scan_first(p, el, sf, ef, uf) ==
    IF el.full_name = None
    THEN [peoples |-> p, name |-> None, start |-> None, end |-> None,
          branch |-> "no_name", warnings |-> <<MsgNoName>>, exc |-> ""]
    ELSE LET sc == ScanChildren(el.children, 1, None, None) IN
      IF sc.exc = "ValueError"
      THEN [peoples |-> p, name |-> el.full_name, start |-> sc.start,
            end |-> sc.end, branch |-> "parse_error",
            warnings |-> <<MsgValueError>>, exc |-> ""]
      ELSE IF sc.exc # ""
      THEN [peoples |-> p, name |-> el.full_name, start |-> sc.start,
            end |-> sc.end, branch |-> "raised", warnings |-> <<>>,
            exc |-> sc.exc]
      ELSE IF UserFiltered(el.full_name[1], uf)
      THEN [peoples |-> p, name |-> el.full_name, start |-> None, end |-> None,
            branch |-> "user_filtered", warnings |-> <<>>, exc |-> ""]
      ELSE LET r == AfterScan(p, el.full_name[1], sc.start, sc.end, sf, ef) IN
           [peoples |-> r.peoples, name |-> el.full_name, start |-> sc.start,
            end |-> sc.end, branch |-> r.branch, warnings |-> r.warnings,
            exc |-> ""]

\* Lines 55-103: the loop body for one element.  name, start and end are the
\* locals as this iteration set them, None when it did not reach them.
calculate_body(p, el, sf, ef, uf) ==
    IF el.full_name = None
    THEN [peoples |-> p, name |-> None, start |-> None, end |-> None,
          branch |-> "no_name", warnings |-> <<MsgNoName>>, exc |-> ""]
    ELSE IF UserFiltered(el.full_name[1], uf)
    THEN [peoples |-> p, name |-> el.full_name, start |-> None, end |-> None,
          branch |-> "user_filtered", warnings |-> <<>>, exc |-> ""]
    ELSE LET sc == ScanChildren(el.children, 1, None, None) IN
      IF sc.exc = "ValueError"
      THEN [peoples |-> p, name |-> el.full_name, start |-> sc.start,
            end |-> sc.end, branch |-> "parse_error",
            warnings |-> <<MsgValueError>>, exc |-> ""]
      ELSE IF sc.exc # ""
      THEN [peoples |-> p, name |-> el.full_name, start |-> sc.start,
            end |-> sc.end, branch |-> "raised", warnings |-> <<>>,
            exc |-> sc.exc]
      ELSE LET r == AfterScan(p, el.full_name[1], sc.start, sc.end, sf, ef) IN
           [peoples |-> r.peoples, name |-> el.full_name, start |-> sc.start,
            end |-> sc.end, branch |-> r.branch, warnings |-> r.warnings,
            exc |-> ""]

-----------------------------------------------------------------------------
(* Rendering *)

\* output_timedelta: the three numbers of f'{hours} h, {minutes} m, {seconds} s'
output_timedelta(duration) ==
    LET remainder == duration % 3600
        minutes == remainder \div 60
        hours == IntTrueDiv(duration, 3600)
        seconds == duration - hours * 3600
    IN [h |-> hours, m |-> minutes, s |-> seconds]

\* console_output: per user, per date, the rendered duration
console_output(data) ==
    [user \in DOMAIN data |->
        [date \in DOMAIN data[user] |-> output_timedelta(data[user][date])]]

-----------------------------------------------------------------------------
(* Inputs *)

Elem(n, ch) == [full_name |-> n, children |-> ch]

Field(tag, text) == [kind |-> "element", tag |-> tag, text |-> text]

CommentNode == [kind |-> "comment", tag |-> <<>>, text |-> None]

\* Timestamp texts, DD-MM-YYYY HH:MM:SS
T0100 == <<1, 1, 2024, 0, 0, 0>>

T0101 == <<1, 1, 2024, 1, 0, 0>>

T0123 == <<1, 1, 2024, 23, 1, 40>>

T0200 == <<2, 1, 2024, 0, 0, 0>>

TFeb == <<1, 2, 2024, 0, 30, 0>>

BadText == <<32, 1, 2024, 0, 0, 0>>

SeqsUpTo(S, n) == UNION {[1..k -> S] : k \in 0..n}

NameAttrs == {None, Some("Alice"), Some("Bob")}

StartFields == {Field(<<"s","t","a","r","t">>, Some(T0100)),
                Field(<<"S","t","a","r","t">>, Some(T0200))}

EndFields == {Field(<<"e","n","d">>, Some(T0101)),
              Field(<<"E","N","D">>, Some(T0123)),
              Field(<<"e","n","d">>, Some(T0200))}

\* The children of the records of the stream
StreamChildren ==
    {<<s, e>> : s \in StartFields, e \in EndFields}
    \cup {<<Field(<<"e","n","d">>, Some(T0101)),
            Field(<<"n","o","t","e">>, Some(T0100)),
            Field(<<"s","t","a","r","t">>, Some(T0100))>>,
          <<Field(<<"s","t","a","r","t">>, Some(T0100)),
            Field(<<"e","n","d">>, Some(BadText))>>,
          <<Field(<<"s","t","a","r","t">>, Some(<<>>)),
            Field(<<"e","n","d">>, Some(T0101))>>,
          <<Field(<<"s","t","a","r","t">>, Some(T0100))>>,
          <<Field(<<"E","n","d">>, Some(T0101))>>,
          <<>>,
          <<Field(<<"s","t","a","r","t">>, None),
            Field(<<"e","n","d">>, Some(T0101))>>,
          <<CommentNode,
            Field(<<"s","t","a","r","t">>, Some(T0100)),
            Field(<<"e","n","d">>, Some(T0101))>>}

StreamRecords == {Elem(n, ch) : n \in NameAttrs, ch \in StreamChildren}

\* The children of the records the scan is checked on
ScanFields ==
    {Field(<<"s","t","a","r","t">>, Some(T0100)),
     Field(<<"S","T","A","R","T">>, Some(TFeb)),
     Field(<<"e","n","d">>, Some(T0101)),
     Field(<<"E","n","d">>, Some(T0123)),
     Field(<<"s","t","a","r","t">>, Some(BadText)),
     Field(<<"e","n","d">>, None),
     Field(<<"n","o","t","e">>, Some(T0200)),
     CommentNode}

ScanRecords == {Elem(Some("Alice"), ch) : ch \in SeqsUpTo(ScanFields, MaxChildren)}

\* --start / --end texts, DD-MM-YYYY
FilterTexts == {<<1, 1, 2024>>, <<2, 1, 2024>>}

DateFilters == {None} \cup {Some(ParseFilter(t)) : t \in FilterTexts}

UserFilters == {None, Some(<<>>), Some(<<"Alice">>), Some(<<"Bob", "Carol">>)}

-----------------------------------------------------------------------------
(* The state machine *)

Init ==
    /\ start_filter \in DateFilters
    /\ end_filter \in DateFilters
    /\ users_filter \in UserFilters
    /\ peoples = EmptyDict
    /\ elem = Elem(None, <<>>)
    /\ name = None
    /\ start = None
    /\ end = None
    /\ branch = "start"
    /\ count = 0
    /\ log = <<>>
    /\ emitted = <<>>
    /\ pc = "loop"
    /\ exc = ""
    /\ result = None
    /\ stdout = None
    /\ plain = EmptyDict
    /\ ref = [pc |-> "loop", peoples |-> EmptyDict]

\* The plain sum the Accumulation is documented to hold
AddPlain(pl, b) ==
    IF b.branch # "accepted" THEN pl
    ELSE LET nm == b.name[1]
             day == DateStr(b.start[1])
             row == Get(pl, nm, EmptyDict)
         IN Put(pl, nm, Put(row, day, Get(row, day, 0)
                                      + TotalSeconds(b.end[1], b.start[1])))

\* calculate(file, start_filter, end_filter, None) on the same element
RefStep(r, el) ==
    IF r.pc # "loop" THEN r
    ELSE LET b == calculate_body(r.peoples, el, start_filter, end_filter, None)
         IN IF b.exc # "" THEN [pc |-> "raised", peoples |-> r.peoples]
            ELSE [pc |-> "loop", peoples |-> b.peoples]

\* next(context) yields elem and the loop body runs on it
Iterate(elem_) ==
    /\ pc = "loop"
    /\ count < MaxRecords
    /\ LET b == calculate_body(peoples, elem_, start_filter, end_filter,
                               users_filter)
       IN /\ peoples' = b.peoples
          /\ emitted' = b.warnings
          /\ name' = b.name
          /\ start' = b.start
          /\ end' = b.end
          /\ branch' = b.branch
          /\ log' = log \o b.warnings
          /\ pc' = IF b.exc # "" THEN "raised" ELSE "loop"
          /\ exc' = b.exc
          /\ plain' = AddPlain(plain, b)
    /\ elem' = elem_
    /\ count' = count + 1
    /\ ref' = RefStep(ref, elem_)
    /\ UNCHANGED <<start_filter, end_filter, users_filter, result, stdout>>

\* An XMLSyntaxError that ends the loop like StopIteration does
SyntaxErrorReturnsPartial ==
    /\ pc = "loop"
    /\ pc' = "returned"
    /\ exc' = ""
    /\ branch' = "syntax_error"
    /\ result' = Some(peoples)
    /\ ref' = IF ref.pc = "loop" THEN [ref EXCEPT !.pc = "raised"] ELSE ref
    /\ UNCHANGED <<start_filter, end_filter, users_filter, peoples, elem, name,
                   start, end, count, log, emitted, stdout, plain>>

\* next(context) raises XMLSyntaxError: raise AppException
SyntaxError ==
    /\ pc = "loop"
    /\ pc' = "raised"
    /\ exc' = "AppException"
    /\ branch' = "syntax_error"
    /\ result' = None
    /\ ref' = IF ref.pc = "loop" THEN [ref EXCEPT !.pc = "raised"] ELSE ref
    /\ UNCHANGED <<start_filter, end_filter, users_filter, peoples, elem, name,
                   start, end, count, log, emitted, stdout, plain>>

\* next(context) raises StopIteration: return peoples
StopIteration ==
    /\ pc = "loop"
    /\ pc' = "returned"
    /\ branch' = "exhausted"
    /\ result' = Some(peoples)
    /\ ref' = IF ref.pc = "loop" THEN [ref EXCEPT !.pc = "returned"] ELSE ref
    /\ UNCHANGED <<start_filter, end_filter, users_filter, peoples, elem, name,
                   start, end, count, log, emitted, exc, stdout, plain>>

\* run(): sys.stdout.write(console_output(r))
ConsoleOutput ==
    /\ pc = "returned"
    /\ pc' = "written"
    /\ stdout' = Some(console_output(result[1]))
    /\ UNCHANGED <<start_filter, end_filter, users_filter, peoples, elem, name,
                   start, end, branch, count, log, emitted, exc, result, plain,
                   ref>>

Next ==
    \/ \E e \in StreamRecords : Iterate(e)
    \/ SyntaxError
    \/ StopIteration
    \/ ConsoleOutput

Spec == Init /\ [][Next]_vars

\* calculate on a stream of one record with any children
ScanNext ==
    \/ \E e \in ScanRecords : count = 0 /\ Iterate(e)
    \/ StopIteration

ScanSpec == Init /\ [][ScanNext]_vars

\* console_output on an Accumulation of one entry
FmtInit ==
    /\ start_filter = None
    /\ end_filter = None
    /\ users_filter = None
    /\ \E d \in 0..MaxDuration :
          peoples = Put(EmptyDict, "Alice", Put(EmptyDict, <<2024, 1, 1>>, d))
    /\ elem = Elem(None, <<>>)
    /\ name = None
    /\ start = None
    /\ end = None
    /\ branch = "exhausted"
    /\ count = 0
    /\ log = <<>>
    /\ emitted = <<>>
    /\ pc = "returned"
    /\ exc = ""
    /\ result = Some(peoples)
    /\ stdout = None
    /\ plain = peoples
    /\ ref = [pc |-> "returned", peoples |-> peoples]

FmtNext == ConsoleOutput

FmtSpec == FmtInit /\ [][FmtNext]_vars

-----------------------------------------------------------------------------
(* Vocabulary of the properties *)

DictEq(a, b) == DOMAIN a = DOMAIN b /\ \A k \in DOMAIN a : a[k] = b[k]

SkipBranches == {"no_name", "user_filtered", "parse_error", "missing",
                 "date_filtered"}

IterBranches == SkipBranches \cup {"accepted", "raised"}

Stamp(dt) == <<dt.year, dt.month, dt.day, dt.hour, dt.minute, dt.second>>

\* a is earlier than b, field by field from the year down
Earlier(a, b) ==
    \E i \in 1..6 : /\ Stamp(a)[i] < Stamp(b)[i]
                    /\ \A j \in 1..(i - 1) : Stamp(a)[j] = Stamp(b)[j]

InRange(st, en) ==
    /\ start_filter = None \/ ~Earlier(st, start_filter[1])
    /\ end_filter = None \/ ~Earlier(end_filter[1], en)

FilterActive == users_filter # None /\ users_filter[1] # <<>>

Allowed == {users_filter[1][i] : i \in DOMAIN users_filter[1]}

Tagged(children, tag) ==
    {i \in DOMAIN children :
        children[i].kind = "element" /\ Lower(children[i].tag) = tag}

Min(S) == CHOOSE x \in S : \A y \in S : x <= y

Max(S) == CHOOSE x \in S : \A y \in S : x >= y

TimeOf(child) == parse_datetime(child.text).value[1]

IsTimeChild(c) == c.kind = "element" /\ Lower(c.tag) \in {TagStart, TagEnd}

\* the child makes the scan raise an exception calculate does not catch
Aborts(c) == c.kind # "element" \/ (IsTimeChild(c) /\ c.text = None)

\* the child is a start or end whose text is no timestamp
Unparseable(c) == IsTimeChild(c) /\ c.text # None /\ ~Matches(c.text[1])

\* the scan meets an unparseable start or end before anything else stops it
Malformed(children) ==
    \E i \in DOMAIN children :
        /\ Unparseable(children[i])
        /\ \A j \in 1..(i - 1) : ~Aborts(children[j])

CleanScan(children) ==
    \A i \in DOMAIN children : ~Aborts(children[i]) /\ ~Unparseable(children[i])

NameExcluded(el) ==
    el.full_name # None /\ FilterActive /\ el.full_name[1] \notin Allowed

-----------------------------------------------------------------------------
(* The properties *)

\* C1: for every person and day, the stored value is the plain sum of the
\* elapsed seconds of the accepted records of that person that start on
\* that day; a later record adds only its own elapsed seconds.
C1_StoredIsPlainSum ==
    /\ DOMAIN peoples = DOMAIN plain
    /\ \A n \in DOMAIN peoples : DictEq(peoples[n], plain[n])

\* C2: calculate is left by an exception only on the structural failure of
\* the source; no record, whatever its name, children or texts, aborts it.
C2_OnlyStructuralFailureAborts == pc = "raised" => exc = "AppException"

\* C3: an accepted record emits the quota diagnostic exactly when the total
\* stored for its person and day after it exceeds 86400, and that stored
\* total is the full plain sum, the record included.
C3_QuotaAdvisory ==
    branch = "accepted" =>
        LET n == name[1]
            d == DateStr(start[1])
        IN /\ n \in DOMAIN peoples
           /\ d \in DOMAIN peoples[n]
           /\ emitted \in {<<>>, <<MsgQuota>>}
           /\ (emitted = <<MsgQuota>>) <=> (peoples[n][d] > 86400)
           /\ peoples[n][d] = plain[n][d]

\* C4: a record that passed validation is accepted exactly when its start is
\* not earlier than the floor (if any) and its end is not later than the
\* ceiling (if any); both bounds are inclusive, and an accepted record has
\* an entry under its name and the day of its start.
C4_DateFilterInclusive ==
    branch \in {"accepted", "date_filtered"} =>
        /\ (branch = "accepted") <=> InRange(start[1], end[1])
        /\ branch = "accepted" =>
              /\ name[1] \in DOMAIN peoples
              /\ DateStr(start[1]) \in DOMAIN peoples[name[1]]

C4_Witness ==
    /\ branch = "accepted"
    /\ start_filter # None /\ start = start_filter
    /\ end_filter # None /\ end = end_filter

\* C5: with a non-empty user filter every key of the Accumulation is a name
\* of the filter and, when calculate returns, the run without the filter
\* returns too and gives the names of the filter the same entries; without
\* an active filter no record is excluded for its name.
C5_UserFilter ==
    /\ FilterActive => DOMAIN peoples \subseteq Allowed
    /\ FilterActive /\ pc \in {"returned", "written"} =>
          /\ ref.pc = "returned"
          /\ \A n \in Allowed :
                DictEq(Get(peoples, n, EmptyDict), Get(ref.peoples, n, EmptyDict))
    /\ ~FilterActive => branch # "user_filtered"

\* C6: a structural failure of the source leaves calculate with
\* AppException and no returned Accumulation, and after an exception no
\* step of the run changes anything.
C6_MalformedInputFails ==
    [][/\ pc = "raised" => vars' = vars
       /\ branch' = "syntax_error" =>
             pc' = "raised" /\ exc' = "AppException" /\ result' = None
                            /\ stdout' = None]_vars

C6_Witness ==
    /\ exc = "AppException"
    /\ count > 0
    /\ DOMAIN peoples # {}
    /\ result = None

\* C7: a non-negative duration d is rendered with H = d div 3600,
\* M = (d mod 3600) div 60 and S = d mod 60.
C7_Rendering ==
    stdout # None =>
        \A u \in DOMAIN stdout[1] : \A d \in DOMAIN stdout[1][u] :
            LET dur == result[1][u][d] IN
            dur >= 0 => stdout[1][u][d] = [h |-> dur \div 3600,
                                           m |-> (dur % 3600) \div 60,
                                           s |-> dur % 60]

\* C8 as claimed: the interval of an accepted record is formed from the
\* first start child and the first end child.
C8_FirstOccurrence ==
    branch = "accepted" /\ count = 1 =>
        LET ch == elem.children
            s == TimeOf(ch[Min(Tagged(ch, TagStart))])
            e == TimeOf(ch[Min(Tagged(ch, TagEnd))])
        IN /\ start = Some(s) /\ end = Some(e)
           /\ DictEq(peoples[name[1]],
                     Put(EmptyDict, DateStr(s), TotalSeconds(e, s)))

\* C8 as amended: the interval of an accepted record is formed from the
\* last start child and the last end child, tags compared in lower case;
\* the elapsed seconds added and the day key come from these two.
C8_LastOccurrence ==
    branch = "accepted" /\ count = 1 =>
        LET ch == elem.children
            s == TimeOf(ch[Max(Tagged(ch, TagStart))])
            e == TimeOf(ch[Max(Tagged(ch, TagEnd))])
        IN /\ start = Some(s) /\ end = Some(e)
           /\ DictEq(peoples[name[1]],
                     Put(EmptyDict, DateStr(s), TotalSeconds(e, s)))

C8_Witness ==
    /\ branch = "accepted"
    /\ LET ch == elem.children
           ss == Tagged(ch, TagStart)
           es == Tagged(ch, TagEnd)
       IN /\ Cardinality(ss) >= 2
          /\ ch[Min(ss)].text # ch[Max(ss)].text
          /\ ch[Min(ss)].tag # ch[Max(ss)].tag
          /\ Cardinality(es) >= 1

\* C9: a loop iteration that skips its record, for whatever reason, leaves
\* the Accumulation as it was.
C9_SkipLeavesAccumulation ==
    [][(count' = count + 1 /\ branch' \in SkipBranches) => peoples' = peoples]_vars

C9_Witness ==
    /\ branch = "date_filtered"
    /\ count = 2
    /\ DOMAIN peoples # {}
    /\ name[1] \notin DOMAIN peoples

====
